---- MODULE Spec2Model ----
(***************************************************************************)
(* Dead-reckoning controller of the encoderless microstage                 *)
(* (qt3move/encoderless_wrapper.py, class EncoderlessMicrostage), the      *)
(* MCL driver calls it makes (qt3move/microstage/mcl_wrapper.py) and the   *)
(* worker threads the Tk application starts around it (qt3move/main.py).   *)
(*                                                                         *)
(* Lengths are fixed-point: one micron is UM = 8000 units, so that the     *)
(* microstep (0.09525 um = 762 units) and the half microstep (381 units)   *)
(* are integers and every quotient the code rounds is an exact rational.   *)
(* Python's float arithmetic is modelled by exact arithmetic; round() is   *)
(* Python 3's round-half-to-even.                                          *)
(***************************************************************************)
EXTENDS Integers, Sequences, FiniteSets, TLC

\* fixed-point scale: units per micron
UM == 8000

\* MICRONS_PER_MICROSTEP = 0.09525 um, in units
MICRONS_PER_MICROSTEP == 762

\* HOMING_TRAVEL_UM = 30000 um
HOMING_TRAVEL_UM == 30000 * UM

\* X_LIMIT_UM, Y_LIMIT_UM = 12000.0, 12000.0
X_LIMIT_UM == 12000 * UM

Y_LIMIT_UM == 12000 * UM

\* BACKLASH_COMP_UM = 10.0
BACKLASH_COMP_UM == 10 * UM

\* the 8 in "stable_step_size_um = 8 * MICRONS_PER_MICROSTEP"
STABLE_STEP_MICROSTEPS == 8

\* the handle value init_handle() returned (any non-zero int)
HANDLE == 7

\* "the stage's range 25000um": the physical travel between the limit switches
STAGE_RANGE_UM == 25000 * UM

\* bound of the model: controller calls made in one run
MaxCalls == 3

\* per-command microstep ceiling of the specification's example configuration
CHUNK_LIMIT == 30000

Abs(n) == IF n < 0 THEN -n ELSE n

\* mutant: int(n / d + 0.5) rounding, every tie going up
RoundHalfUp(n, d) == (2 * n + d) \div (2 * d)

\* Python 3 round(n / d) for d > 0: nearest integer, ties to the even one
RoundHalfEven(n, d) ==
    LET q == n \div d
        r == n % d
    IN  IF 2 * r < d THEN q
        ELSE IF 2 * r > d THEN q + 1
        ELSE IF q % 2 = 0 THEN q ELSE q + 1

\* round(um / MICRONS_PER_MICROSTEP): microns to microsteps
ToMicrosteps(um) == RoundHalfEven(um, MICRONS_PER_MICROSTEP)

\* get_position(): counters to microns
PositionUm(steps) == steps * MICRONS_PER_MICROSTEP

\* stable_step_size_um
StableStepSizeUm == STABLE_STEP_MICROSTEPS * MICRONS_PER_MICROSTEP

\* mutant: int() in place of round() when snapping
SnapTruncated(um) == (um \div StableStepSizeUm) * StableStepSizeUm

\* round(target / stable_step_size_um) * stable_step_size_um
SnapToStableStep(um) == RoundHalfEven(um, StableStepSizeUm) * StableStepSizeUm

\* mutant: the snapped value is computed and not used
FinalTargetUnsnapped(um, snap) == um

\* final_target_x / final_target_y of move_to
FinalTarget(um, snap) == IF snap THEN SnapToStableStep(um) ELSE um

\* mutant: the upper limits are not checked
InLimitsLowerOnly(fx, fy) == 0 <= fx /\ 0 <= fy

\* the boundary check of move_to
InLimits(fx, fy) ==
    /\ 0 <= fx /\ fx <= X_LIMIT_UM
    /\ 0 <= fy /\ fy <= Y_LIMIT_UM

\* overshoot_x = final_target_x - BACKLASH_COMP_UM
OvershootX(fx) == fx - BACKLASH_COMP_UM

\* mutant: the Y overshoot taken on the wrong side of the target
OvershootYBelow(fy) == fy - BACKLASH_COMP_UM

\* overshoot_y = final_target_y + BACKLASH_COMP_UM
OvershootY(fy) == fy + BACKLASH_COMP_UM

\* mutant: the X axis is not inverted
StepsToMoveXNotInverted(delta_x_user) == ToMicrosteps(delta_x_user)

\* steps_to_move_x = round(-delta_x_user / MICRONS_PER_MICROSTEP)
StepsToMoveX(delta_x_user) == ToMicrosteps(-delta_x_user)

\* mutant: int() in place of round() when converting to microsteps
StepsToMoveYTruncated(delta_y_user) == delta_y_user \div MICRONS_PER_MICROSTEP

\* steps_to_move_y = round(delta_y_user / MICRONS_PER_MICROSTEP)
StepsToMoveY(delta_y_user) == ToMicrosteps(delta_y_user)

\* steps_y = -round(HOMING_TRAVEL_UM / MICRONS_PER_MICROSTEP)
HomingStepsY == -ToMicrosteps(HOMING_TRAVEL_UM)

\* steps_x = round(HOMING_TRAVEL_UM / MICRONS_PER_MICROSTEP)
HomingStepsX == ToMicrosteps(HOMING_TRAVEL_UM)

\* the threads that may call the controller
Threads == {1, 2}

\* the thread of a script that calls the controller directly (the __main__ example)
ScriptThreads == {1}

\* targets (x_um, y_um) the callers request, in units
Targets ==
    { <<0, 0>>,                          \* the origin (return_to_home)
      <<84000, 65600>>,                  \* (10.5, 8.2), the example's valid move
      <<800000, 400000>>,                \* (100, 50)
      <<381, 381>>,                      \* half a microstep on both axes
      <<371, 0>>,                        \* its overshoot: half a microstep off (-10, 10)
      <<12000 * UM, 12000 * UM>>,        \* both limits
      <<12050 * UM, 0>>,                 \* x = X_LIMIT_UM + 50
      <<12000 * UM + 80, 0>>,            \* just above the limit, snaps below it
      <<0, -UM>> }                       \* y = -1

VARIABLES
    x_pos_steps,            \* self.x_pos_steps
    y_pos_steps,            \* self.y_pos_steps
    handle,                 \* self.handle (0 is None)
    moving,                 \* what the driver's move_status() would report
    homing,                 \* NOT_HOMED / HOMING / HOMED / FAILED of the last find_home
    pc,                     \* each thread's position in the controller code
    call,                   \* each thread's current (or last) controller call
    ncalls,                 \* controller calls started so far
    is_homed,               \* Qt3MoveApp.is_homed
    movement_in_progress,   \* Qt3MoveApp.movement_in_progress
    task,                   \* what a worker thread of the application runs
    stage,                  \* the controller object the caller holds, and how it was built
                            \* and how often it was closed and its handle released
    hw,                     \* the physical stage: whether each axis's limit bit reads
                            \* "limit reached", and whether its homing switch trips
    cancel,                 \* a stop request raised outside the controller: the
                            \* number of the call it was raised in, 0 for none
    sent                    \* the microsteps the driver accepted on axis 1 and 2 since
                            \* find_home set the origin, counted while no call has
                            \* raised since (clean), and whether every move_to since
                            \* then snapped its target; not kept otherwise

vars == <<x_pos_steps, y_pos_steps, handle, moving, homing, pc, call, ncalls,
          is_homed, movement_in_progress, task, stage, hw, cancel, sent>>

\* what no step of a controller call changes
outer == <<stage, cancel>>

ctl == <<x_pos_steps, y_pos_steps>>

gui == <<is_homed, movement_in_progress>>

NoCall ==
    [op |-> "none", via |-> "none", tx |-> 0, ty |-> 0, snap |-> TRUE,
     fx |-> 0, fy |-> 0, cmds |-> <<>>, start |-> <<0, 0>>, outcome |-> "none",
     repeat |-> FALSE, homed |-> FALSE, confirmed |-> 0, faults |-> 0,
     ret |-> "none", asleep |-> FALSE]

NoTask == [kind |-> "none", tx |-> 0, ty |-> 0]

\* the state around the controller before a call is made: nothing commanded,
\* nothing running; h is self.handle, s the caller's controller object, w the stage
Start(h, s, w) ==
    /\ x_pos_steps = 0
    /\ y_pos_steps = 0
    /\ handle = h
    /\ stage = s
    /\ hw = w
    /\ cancel = 0
    /\ sent = [x |-> 0, y |-> 0, clean |-> FALSE, snapped |-> FALSE]
    /\ moving = FALSE
    /\ homing = "NOT_HOMED"
    /\ pc = [t \in Threads |-> "idle"]
    /\ call = [t \in Threads |-> NoCall]
    /\ ncalls = 0
    /\ is_homed = FALSE
    /\ movement_in_progress = FALSE
    /\ task = [t \in Threads |-> NoTask]

\* a stage whose limit switches both trip
GoodStage == [at_x |-> FALSE, at_y |-> FALSE, trips_x |-> TRUE, trips_y |-> TRUE]

\* EncoderlessMicrostage.__init__ succeeded; Qt3MoveApp.__init__
Init == Start(HANDLE, [state |-> "ok", init |-> "handle", attempts |-> 1, closes |-> 0, releases |-> 0], GoodStage)

\* the record of a call that is entered now
NewCall(op, via, tx, ty, snap, old) ==
    [op |-> op, via |-> via, tx |-> tx, ty |-> ty, snap |-> snap,
     fx |-> FinalTarget(tx, snap), fy |-> FinalTarget(ty, snap),
     cmds |-> <<>>, start |-> <<x_pos_steps, y_pos_steps>>, outcome |-> "running",
     repeat |-> /\ op = "move_to" /\ old.op = "move_to" /\ old.outcome = "done"
                /\ old.tx = tx /\ old.ty = ty /\ old.snap = snap,
     homed |-> homing = "HOMED", confirmed |-> 0, faults |-> 0, ret |-> "none",
     asleep |-> FALSE]

\* one command handed to move_three_axes_m: microsteps on axis 1 (X) and axis 2 (Y),
\* with the user-frame deltas it was computed from and the driver's state then
Command(leg, sx, sy, dx, dy) ==
    [leg |-> leg, x |-> sx, y |-> sy, dx |-> dx, dy |-> dy, busy |-> moving]

\* what the limit bit of an axis can read after a move of `toward` microsteps
\* towards its homing switch (negative: away from it), when it read `at` before:
\* a switch that does not trip never reads "limit reached"; a move away leaves
\* the switch; a move of the whole range reaches it; a shorter move towards it
\* may or may not reach it
LimitAfterMove(at, trips, toward) ==
    IF toward = 0 THEN {at}
    ELSE IF toward < 0 \/ ~trips THEN {FALSE}
    ELSE IF toward >= ToMicrosteps(STAGE_RANGE_UM) \/ at THEN {TRUE}
    ELSE {TRUE, FALSE}

\* MCL_MDMoveThreeAxesM accepted by the driver: the stage sets off. Positive
\* microsteps on axis 1 go towards the X homing switch, negative microsteps on
\* axis 2 towards the Y homing switch; a closed handle (None) is refused.
MoveThreeAxesM(sx, sy) ==
    /\ handle # 0
    /\ moving' = TRUE
    /\ \E ax \in LimitAfterMove(hw.at_x, hw.trips_x, sx),
          ay \in LimitAfterMove(hw.at_y, hw.trips_y, -sy) :
            hw' = [hw EXCEPT !.at_x = ax, !.at_y = ay]
    /\ sent' = IF sent.clean THEN [sent EXCEPT !.x = @ + sx, !.y = @ + sy] ELSE sent

\* status(): the limit bit of an axis reads 0 (limit reached)
AtLimitX == hw.at_x

AtLimitY == hw.at_y

\* mutant: the arguments taken as an offset from the current counters
SetPositionRelative(x_um, y_um) ==
    /\ x_pos_steps' = x_pos_steps + ToMicrosteps(x_um)
    /\ y_pos_steps' = y_pos_steps + ToMicrosteps(y_um)

\* set_position(x_um, y_um)
SetPosition(x_um, y_um) ==
    /\ x_pos_steps' = ToMicrosteps(x_um)
    /\ y_pos_steps' = ToMicrosteps(y_um)

\* ---- find_home ----

\* find_home() is entered
EnterFindHome(t) ==
    /\ pc' = [pc EXCEPT ![t] = "home_y"]
    /\ call' = [call EXCEPT ![t] = NewCall("find_home", "find_home", 0, 0, FALSE, call[t])]
    /\ homing' = "HOMING"
    /\ ncalls' = ncalls + 1
    /\ UNCHANGED <<ctl, handle, outer, hw, sent, moving>>

\* move_three_axes_m(2, DEFAULT_VELOCITY, steps_y, 0, 0, 0, 0, 0, 0, handle)
FindHomeMoveY(t) ==
    /\ pc[t] = "home_y"
    /\ pc' = [pc EXCEPT ![t] = "home_y_wait"]
    /\ call' = [call EXCEPT ![t].cmds = Append(@, Command(1, 0, HomingStepsY, 0, 0))]
    /\ MoveThreeAxesM(0, HomingStepsY)
    /\ UNCHANGED <<ctl, handle, outer, homing, ncalls, gui, task>>

\* move_three_axes_m(1, DEFAULT_VELOCITY, steps_x, 0, 0, 0, 0, 0, 0, handle)
FindHomeMoveX(t) ==
    /\ pc[t] = "home_x"
    /\ pc' = [pc EXCEPT ![t] = "home_x_wait"]
    /\ call' = [call EXCEPT ![t].cmds = Append(@, Command(2, HomingStepsX, 0, 0, 0))]
    /\ MoveThreeAxesM(HomingStepsX, 0)
    /\ UNCHANGED <<ctl, handle, outer, homing, ncalls, gui, task>>

\* set_position(0, 0) and the return of find_home
FindHomeSetOrigin(t) ==
    /\ pc[t] = "home_set"
    /\ SetPosition(0, 0)
    /\ pc' = [pc EXCEPT ![t] = "return"]
    /\ call' = [call EXCEPT ![t].outcome = "done", ![t].ret = "None"]
    /\ homing' = "HOMED"
    /\ UNCHANGED <<handle, outer, hw, moving, ncalls, gui, task>>
    /\ sent' = [x |-> 0, y |-> 0, clean |-> TRUE, snapped |-> TRUE]

\* ---- move_to ----

\* mutant: the counters are set to the target before the boundary check returns
MoveAbortedAfterSetPosition(t, c) ==
    /\ pc' = [pc EXCEPT ![t] = "return"]
    /\ call' = [call EXCEPT ![t] = [c EXCEPT !.outcome = "rejected", !.ret = "None"]]
    /\ SetPosition(c.fx, c.fy)

\* "Move aborted: Target ... is outside allowed limits."; return
MoveAborted(t, c) ==
    /\ pc' = [pc EXCEPT ![t] = "return"]
    /\ call' = [call EXCEPT ![t] = [c EXCEPT !.outcome = "rejected", !.ret = "None"]]
    /\ UNCHANGED ctl

\* the target passed the boundary check: on to the overshoot leg
MoveAccepted(t, c) ==
    /\ pc' = [pc EXCEPT ![t] = "leg1"]
    /\ call' = [call EXCEPT ![t] = c]
    /\ UNCHANGED ctl

\* mutant: the boundary check looks at the requested coordinates, not the snapped ones
EnterMoveToRawCheck(t, via, tx, ty, snap) ==
    LET c == NewCall("move_to", via, tx, ty, snap, call[t])
    IN  /\ IF InLimits(tx, ty) THEN MoveAccepted(t, c) ELSE MoveAborted(t, c)
        /\ ncalls' = ncalls + 1
        /\ sent' = [sent EXCEPT !.snapped = @ /\ snap]
        /\ UNCHANGED <<handle, outer, hw, moving, homing>>

\* move_to(target_x_um, target_y_um, snap_to_stable_step) up to the boundary check
EnterMoveTo(t, via, tx, ty, snap) ==
    LET c == NewCall("move_to", via, tx, ty, snap, call[t])
    IN  /\ IF InLimits(c.fx, c.fy) THEN MoveAccepted(t, c) ELSE MoveAborted(t, c)
        /\ ncalls' = ncalls + 1
        /\ sent' = [sent EXCEPT !.snapped = @ /\ snap]
        /\ UNCHANGED <<handle, outer, hw, moving, homing>>

\* mutant: the first leg goes straight to the target, no overshoot on X
LegTargetXDirect(t) == call[t].fx

\* the target of the leg a thread is in: the overshoot position, then the final target
LegTargetX(t) ==
    IF pc[t] \in {"leg1", "leg1_wait", "leg1_set"} THEN OvershootX(call[t].fx) ELSE call[t].fx

LegTargetY(t) ==
    IF pc[t] \in {"leg1", "leg1_wait", "leg1_set"} THEN OvershootY(call[t].fy) ELSE call[t].fy

LegOf(t) == IF pc[t] \in {"leg1", "leg1_wait", "leg1_set"} THEN 1 ELSE 2

\* delta_x_user, delta_y_user of _execute_move
DeltaXUser(t) == LegTargetX(t) - PositionUm(x_pos_steps)

DeltaYUser(t) == LegTargetY(t) - PositionUm(y_pos_steps)

\* the command _execute_move computes for the leg
LegCommand(t) ==
    Command(LegOf(t), StepsToMoveX(DeltaXUser(t)), StepsToMoveY(DeltaYUser(t)),
            DeltaXUser(t), DeltaYUser(t))

\* _execute_move: "if steps_to_move_x != 0 or steps_to_move_y != 0: move_three_axes_m(...)"
ExecuteMoveCommand(t) ==
    /\ pc[t] \in {"leg1", "leg2"}
    /\ LegCommand(t).x # 0 \/ LegCommand(t).y # 0
    /\ pc' = [pc EXCEPT ![t] = IF pc[t] = "leg1" THEN "leg1_wait" ELSE "leg2_wait"]
    /\ call' = [call EXCEPT ![t].cmds = Append(@, LegCommand(t))]
    /\ MoveThreeAxesM(LegCommand(t).x, LegCommand(t).y)
    /\ UNCHANGED <<ctl, handle, outer, homing, ncalls, gui, task>>

\* _execute_move with no distance to travel: no driver call
ExecuteMoveSkip(t) ==
    /\ pc[t] \in {"leg1", "leg2"}
    /\ LegCommand(t).x = 0 /\ LegCommand(t).y = 0
    /\ pc' = [pc EXCEPT ![t] = IF pc[t] = "leg1" THEN "leg1_set" ELSE "leg2_set"]
    /\ UNCHANGED <<ctl, handle, outer, hw, sent, moving, homing, call, ncalls, gui, task>>

\* _execute_move: set_position(target_x_um, target_y_um); then the next leg or the return
ExecuteMoveCommit(t) ==
    /\ pc[t] \in {"leg1_set", "leg2_set"}
    /\ SetPosition(LegTargetX(t), LegTargetY(t))
    /\ pc' = [pc EXCEPT ![t] = IF pc[t] = "leg1_set" THEN "leg2" ELSE "return"]
    /\ call' = [call EXCEPT ![t].outcome = IF pc[t] = "leg2_set" THEN "done" ELSE @,
                            ![t].ret = IF pc[t] = "leg2_set" THEN "None" ELSE @]
    /\ UNCHANGED <<handle, outer, hw, sent, moving, homing, ncalls, gui, task>>

\* ---- the driver ----

WaitNext(p) ==
    CASE p = "home_y_wait" -> "home_x"
      [] p = "home_x_wait" -> "home_set"
      [] p = "leg1_wait" -> "leg1_set"
      [] p = "leg2_wait" -> "leg2_set"

WaitStates == {"home_y_wait", "home_x_wait", "leg1_wait", "leg2_wait"}

CommandStates == {"home_y", "home_x", "leg1", "leg2"}

\* _wait_for_move: move_status() reports 1, the loop goes to sleep
WaitPoll(t) ==
    /\ pc[t] \in WaitStates
    /\ ~call[t].asleep
    /\ moving
    /\ call' = [call EXCEPT ![t].asleep = TRUE]
    /\ UNCHANGED <<ctl, handle, outer, hw, sent, moving, homing, pc, ncalls, gui, task>>

\* _wait_for_move: time.sleep(0.2) is over, back to the loop's test
WaitWake(t) ==
    /\ pc[t] \in WaitStates
    /\ call[t].asleep
    /\ call' = [call EXCEPT ![t].asleep = FALSE]
    /\ UNCHANGED <<ctl, handle, outer, hw, sent, moving, homing, pc, ncalls, gui, task>>

\* mutant: the wait returns after its first sleep, without polling move_status()
WaitForMoveUnpolled(t) ==
    /\ pc[t] \in WaitStates
    /\ ~call[t].asleep
    /\ pc' = [pc EXCEPT ![t] = WaitNext(pc[t])]
    /\ call' = [call EXCEPT ![t].confirmed = @ + 1]
    /\ UNCHANGED <<ctl, handle, outer, hw, sent, moving, homing, ncalls, gui, task>>

\* _wait_for_move: the poll loop ends when move_status() reports 0
WaitForMove(t) ==
    /\ pc[t] \in WaitStates
    /\ ~call[t].asleep
    /\ ~moving
    /\ pc' = [pc EXCEPT ![t] = WaitNext(pc[t])]
    /\ call' = [call EXCEPT ![t].confirmed = @ + 1]
    /\ UNCHANGED <<ctl, handle, outer, hw, sent, moving, homing, ncalls, gui, task>>

\* an exception leaves the controller call
Raise(t) ==
    /\ pc' = [pc EXCEPT ![t] = "return"]
    /\ call' = [call EXCEPT ![t].outcome = "fault", ![t].faults = @ + 1,
                            ![t].ret = "exception"]
    /\ homing' = IF call[t].op = "find_home" THEN "FAILED" ELSE homing
    /\ sent' = [x |-> 0, y |-> 0, clean |-> FALSE, snapped |-> FALSE]

\* move_three_axes_m: "if err != 0: raise MCL_MD_Exceptions(err)"
MoveCommandFault(t) ==
    /\ pc[t] \in CommandStates
    /\ pc[t] \in {"leg1", "leg2"} => (LegCommand(t).x # 0 \/ LegCommand(t).y # 0)
    /\ Raise(t)
    /\ UNCHANGED <<ctl, handle, outer, hw, moving, ncalls, gui, task>>

\* mutant: the exception of move_status is swallowed and the leg carries on
MoveStatusFaultSwallowed(t) ==
    /\ pc[t] \in WaitStates
    /\ ~call[t].asleep
    /\ pc' = [pc EXCEPT ![t] = WaitNext(pc[t])]
    /\ call' = [call EXCEPT ![t].faults = @ + 1]
    /\ UNCHANGED <<ctl, handle, outer, hw, sent, moving, homing, ncalls, gui, task>>

\* move_status: "if err != 0: raise MCL_MD_Exceptions(err)"
MoveStatusFault(t) ==
    /\ pc[t] \in WaitStates
    /\ ~call[t].asleep
    /\ Raise(t)
    /\ UNCHANGED <<ctl, handle, outer, hw, moving, ncalls, gui, task>>

\* the stage finishes the commanded move
DriverMoveComplete ==
    /\ moving
    /\ moving' = FALSE
    /\ UNCHANGED <<ctl, handle, outer, hw, sent, homing, pc, call, ncalls, gui, task>>

\* ---- a script calling the controller (the __main__ example) ----

ScriptFindHome(t) ==
    /\ stage.state = "ok"
    /\ pc[t] = "idle" /\ ncalls < MaxCalls
    /\ EnterFindHome(t)
    /\ UNCHANGED <<gui, task>>

ScriptMoveTo(t) ==
    /\ stage.state = "ok"
    /\ pc[t] = "idle" /\ ncalls < MaxCalls
    /\ \E T \in Targets, snap \in BOOLEAN : EnterMoveTo(t, "move_to", T[1], T[2], snap)
    /\ UNCHANGED <<gui, task>>

\* return_to_home(): move_to(0, 0)
ScriptReturnToHome(t) ==
    /\ stage.state = "ok"
    /\ pc[t] = "idle" /\ ncalls < MaxCalls
    /\ EnterMoveTo(t, "return_to_home", 0, 0, TRUE)
    /\ UNCHANGED <<gui, task>>

\* mutant: close() releases the handle whether or not it still holds one
CloseUnguarded(t) ==
    /\ handle' = 0
    /\ stage' = [stage EXCEPT !.closes = @ + 1, !.releases = @ + 1]
    /\ call' = [call EXCEPT ![t] = [NewCall("close", "close", 0, 0, FALSE, call[t])
                                       EXCEPT !.outcome = "done", !.ret = "None"]]
    /\ UNCHANGED ctl

\* close(): "if self.handle and self.mcl: release_handle(self.handle); self.handle = None"
Close(t) ==
    /\ handle' = 0
    /\ stage' = [stage EXCEPT !.closes = @ + 1,
                              !.releases = IF handle # 0 THEN @ + 1 ELSE @]
    /\ call' = [call EXCEPT ![t] = [NewCall("close", "close", 0, 0, FALSE, call[t])
                                       EXCEPT !.outcome = "done", !.ret = "None"]]
    /\ UNCHANGED ctl

\* stage.close()
ScriptClose(t) ==
    /\ stage.state = "ok"
    /\ pc[t] = "idle" /\ ncalls < MaxCalls
    /\ Close(t)
    /\ ncalls' = ncalls + 1
    /\ UNCHANGED <<cancel, hw, sent, moving, homing, pc, gui, task>>

\* the call returned (or raised) to the script
ScriptContinue(t) ==
    /\ pc[t] = "return"
    /\ pc' = [pc EXCEPT ![t] = "idle"]
    /\ UNCHANGED <<ctl, handle, outer, hw, sent, moving, homing, call, ncalls, gui, task>>

\* the steps of a thread inside the controller
Controller(t) ==
    \/ FindHomeMoveY(t)
    \/ FindHomeMoveX(t)
    \/ FindHomeSetOrigin(t)
    \/ ExecuteMoveCommand(t)
    \/ ExecuteMoveSkip(t)
    \/ ExecuteMoveCommit(t)
    \/ WaitPoll(t)
    \/ WaitWake(t)
    \/ WaitForMove(t)
    \/ MoveCommandFault(t)
    \/ MoveStatusFault(t)

Next ==
    \/ \E t \in ScriptThreads :
        \/ ScriptFindHome(t)
        \/ ScriptMoveTo(t)
        \/ ScriptReturnToHome(t)
        \/ ScriptClose(t)
        \/ ScriptContinue(t)
        \/ Controller(t)
    \/ DriverMoveComplete

\* ---- the Tk application: handlers on the main thread, workers around the calls ----

\* x positions typed into the "set position" entry, in units
GuiTargets == {84000, 12050 * UM}

\* a thread object that is not in use
Free(t) == pc[t] = "idle" /\ task[t].kind = "none"

Spawned == {t \in Threads : pc[t] = "spawned"}

\* threading.Thread(target=..., daemon=True).start()
StartThread(kind, tx, ty) ==
    /\ ncalls + Cardinality(Spawned) < MaxCalls
    /\ \E t \in Threads :
        /\ Free(t)
        /\ \A u \in Threads : Free(u) => t <= u
        /\ pc' = [pc EXCEPT ![t] = "spawned"]
        /\ task' = [task EXCEPT ![t] = [kind |-> kind, tx |-> tx, ty |-> ty]]
    /\ UNCHANGED <<ctl, handle, outer, hw, sent, moving, homing, call, ncalls, gui>>

\* Qt3MoveApp._find_home: starts find_home_thread
GuiFindHome ==
    /\ TRUE
    /\ StartThread("find_home", 0, 0)

\* Qt3MoveApp._return_to_home: _check_if_homed, then starts return_home_thread
GuiReturnToHome ==
    /\ is_homed
    /\ StartThread("return_to_home", 0, 0)

\* Qt3MoveApp._set_x_position: _check_if_homed, current_pos = get_position(),
\* _run_movement_in_thread(move_x) unless movement_in_progress
GuiSetXPosition ==
    /\ is_homed
    /\ ~movement_in_progress
    /\ \E x \in GuiTargets : StartThread("move", x, PositionUm(y_pos_steps))

\* the thread starts to run: find_home_thread, return_home_thread or movement_wrapper
WorkerStart(t) ==
    /\ pc[t] = "spawned"
    /\ CASE task[t].kind = "find_home" ->
                EnterFindHome(t) /\ UNCHANGED gui
         [] task[t].kind = "return_to_home" ->
                EnterMoveTo(t, "return_to_home", 0, 0, TRUE) /\ UNCHANGED gui
         [] task[t].kind = "move" ->
                /\ movement_in_progress' = TRUE
                /\ EnterMoveTo(t, "move_to", task[t].tx, task[t].ty, TRUE)
                /\ UNCHANGED is_homed
    /\ UNCHANGED task

\* the thread ends: "self.is_homed = True" after find_home returned, the except
\* clauses, movement_wrapper's "finally: self.movement_in_progress = False"
WorkerFinish(t) ==
    /\ pc[t] = "return"
    /\ pc' = [pc EXCEPT ![t] = "idle"]
    /\ task' = [task EXCEPT ![t] = NoTask]
    /\ is_homed' = IF task[t].kind = "find_home" /\ call[t].outcome = "done"
                   THEN TRUE ELSE is_homed
    /\ movement_in_progress' = IF task[t].kind = "move" THEN FALSE
                               ELSE movement_in_progress
    /\ UNCHANGED <<ctl, handle, outer, hw, sent, moving, homing, call, ncalls>>

NextGui ==
    \/ GuiFindHome
    \/ GuiReturnToHome
    \/ GuiSetXPosition
    \/ \E t \in Threads :
        \/ WorkerStart(t)
        \/ WorkerFinish(t)
        \/ Controller(t)
    \/ DriverMoveComplete

Spec == Init /\ [][Next]_vars

SpecGui == Init /\ [][NextGui]_vars

\* ---- a driver that may never report the end of a move ----

\* the steps a running thread takes by itself: everything but the driver's faults
Progress(t) ==
    \/ FindHomeMoveY(t)
    \/ FindHomeMoveX(t)
    \/ FindHomeSetOrigin(t)
    \/ ExecuteMoveCommand(t)
    \/ ExecuteMoveSkip(t)
    \/ ExecuteMoveCommit(t)
    \/ WaitPoll(t)
    \/ WaitWake(t)
    \/ WaitForMove(t)
    \/ ScriptContinue(t)

\* the script's thread keeps running; nothing obliges the driver to finish a move
SpecLive == Init /\ [][Next]_vars /\ \A t \in ScriptThreads : WF_vars(Progress(t))

\* ---- a stage whose limit switches may never trip ----

InitEnv ==
    \E tx, ty \in BOOLEAN :
        Start(HANDLE, [state |-> "ok", init |-> "handle", attempts |-> 1, closes |-> 0, releases |-> 0],
              [at_x |-> FALSE, at_y |-> FALSE, trips_x |-> tx, trips_y |-> ty])

SpecEnv == InitEnv /\ [][Next]_vars

\* ---- a stop request from outside ----

\* something outside the controller asks the running move_to to stop
RequestCancel ==
    /\ cancel = 0
    /\ \E t \in ScriptThreads :
        /\ call[t].op = "move_to"
        /\ pc[t] \in {"leg1", "leg1_wait", "leg1_set", "leg2", "leg2_wait", "leg2_set"}
    /\ cancel' = ncalls
    /\ UNCHANGED <<ctl, handle, stage, hw, sent, moving, homing, pc, call, ncalls, gui, task>>

NextCancel == Next \/ RequestCancel

SpecCancel == Init /\ [][NextCancel]_vars

\* ---- the construction of the controller ----

\* what MCL_Microdrive() and init_handle() can do: the DLL does not load, the
\* DLL hands back 0, the DLL hands back a handle
InitResults == {"load_error", "zero", "handle"}

\* mutant: a zero handle is taken for a handle
HandleAcquiredUnlessRaised(r) == r # "load_error"

\* init_handle: "if err == 0: raise"; __init__: "if not self.handle: raise"
HandleAcquired(r) == r = "handle"

\* stage = None before "stage = EncoderlessMicrostage()"
InitConstruct == Start(0, [state |-> "unconstructed", init |-> "none", attempts |-> 0,
                             closes |-> 0, releases |-> 0], GoodStage)

\* stage = EncoderlessMicrostage(): the object exists only if __init__ did not raise
Construct ==
    /\ stage.state = "unconstructed"
    /\ \E r \in InitResults :
        /\ stage' = [stage EXCEPT !.state = IF HandleAcquired(r) THEN "ok" ELSE "failed",
                                  !.init = r, !.attempts = @ + 1]
        /\ handle' = IF r = "handle" THEN HANDLE ELSE 0
    /\ UNCHANGED <<ctl, hw, sent, cancel, moving, homing, pc, call, ncalls, gui, task>>

NextConstruct == Next \/ Construct

SpecConstruct == InitConstruct /\ [][NextConstruct]_vars

\* ---- properties ----

\* the call of the script's thread
TheCall == call[1]

MoveToReturned == TheCall.op = "move_to" /\ TheCall.outcome \in {"done", "rejected"}

MoveToDone == TheCall.op = "move_to" /\ TheCall.outcome = "done"

\* the requested coordinates are inside the travel bounds
RequestInBounds ==
    /\ 0 <= TheCall.tx /\ TheCall.tx <= X_LIMIT_UM
    /\ 0 <= TheCall.ty /\ TheCall.ty <= Y_LIMIT_UM

\* get_position() is within tol units of the requested target on both axes
PositionWithin(tol) ==
    /\ Abs(PositionUm(x_pos_steps) - TheCall.tx) <= tol
    /\ Abs(PositionUm(y_pos_steps) - TheCall.ty) <= tol

RECURSIVE SumX(_), SumY(_)
SumX(cmds) == IF cmds = <<>> THEN 0 ELSE Head(cmds).x + SumX(Tail(cmds))

SumY(cmds) == IF cmds = <<>> THEN 0 ELSE Head(cmds).y + SumY(Tail(cmds))

\* the number of driver calls a call made for one leg
LegCalls(leg) == Cardinality({i \in DOMAIN TheCall.cmds : TheCall.cmds[i].leg = leg})

\* ceil(n / d) for d > 0
Ceil(n, d) == -((-n) \div d)

\* C1 (as stated): after a completed move_to with the default options to an in-bounds
\* target, get_position() is within one microstep (0.09525 um) of the target.
C1_WithinOneMicrostep ==
    (MoveToDone /\ TheCall.snap /\ RequestInBounds)
        => PositionWithin(MICRONS_PER_MICROSTEP)

\* C1 (amended): after a completed move_to to an in-bounds target the counters are on
\* the 8-microstep grid and get_position() is within half a stable step (4 microsteps)
\* of the target when snapping is on (the default), and within one microstep of the
\* target when snapping is off; it is never the overshoot position.
C1_RestsAtSnappedTarget ==
    (MoveToDone /\ RequestInBounds) =>
        IF TheCall.snap
        THEN /\ PositionWithin(4 * MICRONS_PER_MICROSTEP)
             /\ x_pos_steps % STABLE_STEP_MICROSTEPS = 0
             /\ y_pos_steps % STABLE_STEP_MICROSTEPS = 0
        ELSE PositionWithin(MICRONS_PER_MICROSTEP)

\* a default move_to completed from a position other than the origin, to a target
\* off the stable-step grid
C1_Witness ==
    /\ MoveToDone /\ TheCall.snap /\ RequestInBounds
    /\ TheCall.start # <<0, 0>>
    /\ TheCall.fx # TheCall.tx
    /\ ~PositionWithin(MICRONS_PER_MICROSTEP)

\* C2: after find_home() completed without a fault, get_position() is 0 on every
\* axis, whatever the counters held before.
C2_HomeIsOrigin ==
    (TheCall.op = "find_home" /\ TheCall.outcome = "done")
        => (x_pos_steps = 0 /\ y_pos_steps = 0)

\* find_home completed from counters that were not 0
C2_Witness ==
    /\ TheCall.op = "find_home" /\ TheCall.outcome = "done"
    /\ TheCall.start[1] # 0 /\ TheCall.start[2] # 0
    /\ x_pos_steps = 0 /\ y_pos_steps = 0

\* C3 (as stated): every command handed to the driver carries at most chunk_limit
\* (30000) microsteps per axis.
C3_WithinChunkLimit ==
    \A i \in DOMAIN TheCall.cmds :
        /\ Abs(TheCall.cmds[i].x) <= CHUNK_LIMIT
        /\ Abs(TheCall.cmds[i].y) <= CHUNK_LIMIT

\* C3 (amended): a command of find_home carries at most the homing travel
\* (30000 um, 314961 microsteps) and a command of move_to at most the travel limit
\* plus the backlash distance (12010 um, 126089 microsteps) per axis.
C3_WithinTravel ==
    \A i \in DOMAIN TheCall.cmds :
        LET c == TheCall.cmds[i]
            most == IF TheCall.op = "find_home" THEN HOMING_TRAVEL_UM
                    ELSE X_LIMIT_UM + BACKLASH_COMP_UM
        IN  /\ PositionUm(Abs(c.x)) <= most + MICRONS_PER_MICROSTEP
            /\ PositionUm(Abs(c.y)) <= most + MICRONS_PER_MICROSTEP

\* both legs of a move_to were issued, the first with more than chunk_limit microsteps
C3_Witness ==
    /\ MoveToDone
    /\ Len(TheCall.cmds) = 2
    /\ Abs(TheCall.cmds[1].x) > CHUNK_LIMIT
    /\ Abs(TheCall.cmds[1].y) > CHUNK_LIMIT

\* C4 (as stated): a leg whose delta D on an axis exceeds chunk_limit is issued as
\* ceil(|D| / chunk_limit) driver calls.
C4_ChunkCount ==
    MoveToDone =>
        \A i \in DOMAIN TheCall.cmds :
            LET c == TheCall.cmds[i]
            IN  Abs(c.dy) > PositionUm(CHUNK_LIMIT) =>
                    LegCalls(c.leg) = Ceil(Abs(c.dy), PositionUm(CHUNK_LIMIT))

\* C4 (amended): every leg is issued as exactly one driver call, whatever |D| is (and
\* as none when the stage already is within half a microstep of the leg's target on
\* both axes); that call carries on each axis the integer nearest to D, with the sign of D on Y
\* and the opposite sign on the inverted X axis; the first leg's D is the overshoot
\* position minus the position at the start of the call.
C4_OneCallPerLeg ==
    TheCall.op = "move_to" =>
        /\ LegCalls(1) <= 1 /\ LegCalls(2) <= 1
        /\ \A i \in DOMAIN TheCall.cmds :
            LET c == TheCall.cmds[i]
            IN  /\ 2 * Abs(PositionUm(c.y) - c.dy) <= MICRONS_PER_MICROSTEP
                /\ 2 * Abs(PositionUm(c.x) + c.dx) <= MICRONS_PER_MICROSTEP
                /\ c.leg = 1 =>
                    /\ c.dx = TheCall.fx - BACKLASH_COMP_UM - PositionUm(TheCall.start[1])
                    /\ c.dy = TheCall.fy + BACKLASH_COMP_UM - PositionUm(TheCall.start[2])
        /\ MoveToDone =>
            /\ LegCalls(2) = 1
            /\ \/ LegCalls(1) = 1
               \/ /\ 2 * Abs(TheCall.fx - BACKLASH_COMP_UM - PositionUm(TheCall.start[1]))
                        <= MICRONS_PER_MICROSTEP
                  /\ 2 * Abs(TheCall.fy + BACKLASH_COMP_UM - PositionUm(TheCall.start[2]))
                        <= MICRONS_PER_MICROSTEP

\* a completed move_to whose first leg was longer than chunk_limit on Y and whose
\* delta was not a whole number of microsteps
C4_Witness ==
    /\ MoveToDone
    /\ Len(TheCall.cmds) = 2
    /\ TheCall.cmds[1].dy > PositionUm(CHUNK_LIMIT)
    /\ TheCall.cmds[1].dy % MICRONS_PER_MICROSTEP # 0

\* C5: the last command of every completed move_to moves both axes in the fixed
\* final-approach direction (negative microsteps on X and on Y), whatever the net move.
C5_FinalApproachDirection ==
    MoveToDone =>
        /\ TheCall.cmds # <<>>
        /\ LET last == TheCall.cmds[Len(TheCall.cmds)]
           IN  last.leg = 2 /\ last.x < 0 /\ last.y < 0

\* a completed move_to whose net move was against the final-approach direction on X
\* (user x decreased) and zero on Y
C5_Witness ==
    /\ MoveToDone
    /\ x_pos_steps < TheCall.start[1]
    /\ y_pos_steps = TheCall.start[2]
    /\ TheCall.cmds[Len(TheCall.cmds)].x < 0

\* C6: a move_to repeated with the same target issues zero net microsteps on every
\* axis and leaves get_position() unchanged.
C6_RepeatIsNetZero ==
    (MoveToDone /\ TheCall.repeat) =>
        /\ SumX(TheCall.cmds) = 0
        /\ SumY(TheCall.cmds) = 0
        /\ <<x_pos_steps, y_pos_steps>> = TheCall.start

\* C7 (as stated): a default move_to to x above X_LIMIT_UM and y in bounds is executed
\* and ends at (X_LIMIT_UM, y).
C7_Clamped ==
    (/\ TheCall.op = "move_to" /\ TheCall.outcome # "running" /\ TheCall.snap
     /\ TheCall.tx > X_LIMIT_UM /\ 0 <= TheCall.ty /\ TheCall.ty <= Y_LIMIT_UM)
        => /\ TheCall.outcome = "done"
           /\ Abs(PositionUm(x_pos_steps) - X_LIMIT_UM) <= MICRONS_PER_MICROSTEP
           /\ Abs(PositionUm(y_pos_steps) - TheCall.ty) <= 4 * MICRONS_PER_MICROSTEP

\* C7 (amended): a move_to whose (snapped) target has a coordinate outside
\* [0, limit] returns without an error and without moving: get_position() is what it
\* was before the call, not the target clamped into bounds.
C7_OutOfRangeIsDropped ==
    (/\ TheCall.op = "move_to"
     /\ \/ TheCall.fx < 0 \/ TheCall.fx > X_LIMIT_UM
        \/ TheCall.fy < 0 \/ TheCall.fy > Y_LIMIT_UM)
        => /\ TheCall.outcome = "rejected"
           /\ <<x_pos_steps, y_pos_steps>> = TheCall.start

\* move_to(X_LIMIT_UM + 50, 0) with the default options returned while the stage
\* was away from the origin
C7_Witness ==
    /\ TheCall.op = "move_to" /\ TheCall.outcome = "rejected" /\ TheCall.snap
    /\ TheCall.tx = X_LIMIT_UM + 50 * UM /\ TheCall.ty = 0
    /\ TheCall.start # <<0, 0>>

\* C8: a move_to that rejects its target issues no driver command and leaves the
\* position counters as they were before the call.
C8_RejectedChangesNothing ==
    (TheCall.op = "move_to" /\ TheCall.outcome = "rejected")
        => /\ TheCall.cmds = <<>>
           /\ x_pos_steps = TheCall.start[1]
           /\ y_pos_steps = TheCall.start[2]

\* a move_to was rejected while the counters were not 0
C8_Witness ==
    /\ TheCall.op = "move_to" /\ TheCall.outcome = "rejected"
    /\ x_pos_steps # 0 /\ y_pos_steps # 0
    /\ pc[1] = "idle"

\* C9: move_to and return_to_home issue a driver command only when the last
\* find_home completed (every axis HOMED).
C9_MovesOnlyWhenHomed ==
    \A t \in Threads :
        (call[t].op = "move_to" /\ call[t].cmds # <<>>) => call[t].homed

\* a thread is inside find_home or move_to
InFlight(t) == pc[t] \notin {"idle", "spawned", "return"}

\* C10: no two motion operations are in flight at the same time on the stage.
C10_OneInFlight ==
    \A t, u \in Threads : (InFlight(t) /\ InFlight(u)) => t = u

\* C11: within one controller call no move command is issued while the driver
\* still reports the previous move in progress: every command after the first
\* follows a wait that ended on move_status() = 0.
C11_NoCommandWhileMoving ==
    /\ Len(TheCall.cmds) <= TheCall.confirmed + 1
    /\ \A i \in 2..Len(TheCall.cmds) : ~TheCall.cmds[i].busy

\* the second command of a call is under way
C11_Witness ==
    /\ pc[1] \in {"leg2_wait", "home_x_wait"}
    /\ Len(TheCall.cmds) = 2
    /\ moving

\* C12: waiting for the completion of a move always ends, also when the driver
\* reports the move in progress for ever: a thread inside _wait_for_move
\* eventually leaves it.
C12_WaitEnds ==
    \A t \in ScriptThreads : (pc[t] \in WaitStates) ~> (pc[t] \notin WaitStates)

\* a find_home of the script's thread has ended, one way or the other
FindHomeEnded == TheCall.op = "find_home" /\ TheCall.outcome \in {"done", "fault"}

\* C13: find_home issues a bounded number of homing commands, and when the
\* limit switch of an axis never reports "limit reached" it ends with an error
\* and the homing state FAILED, not with success.
C13_HomingFailsWithoutLimit ==
    /\ TheCall.op = "find_home" => Len(TheCall.cmds) <= 2
    /\ (FindHomeEnded /\ ~(hw.trips_x /\ hw.trips_y))
            => (TheCall.outcome = "fault" /\ homing = "FAILED")

\* C14: find_home sets the origin and declares the stage homed only in a state
\* where the limit bit of every axis reads "limit reached".
C14_HomedOnlyAtLimits ==
    [][(homing # "HOMED" /\ homing' = "HOMED") => (AtLimitX /\ AtLimitY)]_vars

\* the counters xs, ys are the microsteps nearest to the overshoot position of the call
AtOvershoot(xs, ys) ==
    /\ 2 * Abs(PositionUm(xs) - OvershootX(TheCall.fx)) <= MICRONS_PER_MICROSTEP
    /\ 2 * Abs(PositionUm(ys) - OvershootY(TheCall.fy)) <= MICRONS_PER_MICROSTEP

\* the overshoot leg was committed: its move was confirmed, or there was nothing to move
LegOneCommitted ==
    TheCall.confirmed >= 1 \/ AtOvershoot(TheCall.start[1], TheCall.start[2])

MoveToEnded(t) == call[t].op = "move_to" /\ call[t].ret # "none"

\* C16: what move_to hands back tells a completed move, a move rejected before
\* any driver command and a move aborted by a fault apart: two calls that ended
\* differently never hand back the same thing.
C16_OutcomesDistinguished ==
    \A t, u \in Threads :
        (MoveToEnded(t) /\ MoveToEnded(u) /\ call[t].outcome # call[u].outcome)
            => call[t].ret # call[u].ret

\* the step is the set_position(0, 0) that ends a find_home
SetReferenceStep ==
    /\ TheCall.op = "find_home" /\ pc[1] = "home_set"
    /\ TheCall.confirmed = 2
    /\ call'[1].outcome = "done"

\* the step is the set_position of a leg whose move the driver has confirmed
CommitAfterConfirmedMove ==
    /\ TheCall.op = "move_to" /\ pc[1] \in {"leg1_set", "leg2_set"}
    /\ TheCall.cmds # <<>>
    /\ TheCall.cmds[Len(TheCall.cmds)].leg = LegOf(1)
    /\ TheCall.confirmed = Len(TheCall.cmds)

\* C17: the position counters change only at the set-reference step that ends
\* a successful find_home and at the commit that follows a confirmed move;
\* a rejected move_to, close, and a call that ends in a fault leave them alone.
C17_CountersChangeOnlyOnCommit ==
    [][(x_pos_steps' # x_pos_steps \/ y_pos_steps' # y_pos_steps)
            => (SetReferenceStep \/ CommitAfterConfirmedMove)]_vars

\* n / d rounded to the nearest integer, a tie going away from zero
RoundHalfAway(n, d) ==
    IF n >= 0 THEN (2 * n + d) \div (2 * d) ELSE -((2 * (-n) + d) \div (2 * d))

\* steps is a nearest integer to um / MICRONS_PER_MICROSTEP, the even one on a tie
NearestTiesToEven(steps, um) ==
    /\ 2 * Abs(PositionUm(steps) - um) <= MICRONS_PER_MICROSTEP
    /\ 2 * Abs(PositionUm(steps) - um) = MICRONS_PER_MICROSTEP => steps % 2 = 0

\* the move_to of the script's thread has just stored its final target
TargetStored == MoveToDone /\ pc[1] = "return"

\* C18 (as claimed): distances are converted to microsteps by rounding to the
\* nearest integer, ties away from zero, for the commanded microsteps and for
\* the stored position.
C18_TiesAwayFromZero ==
    /\ TheCall.op = "move_to" =>
            \A i \in 1..Len(TheCall.cmds) :
                /\ TheCall.cmds[i].x = RoundHalfAway(-TheCall.cmds[i].dx, MICRONS_PER_MICROSTEP)
                /\ TheCall.cmds[i].y = RoundHalfAway(TheCall.cmds[i].dy, MICRONS_PER_MICROSTEP)
    /\ TargetStored =>
            /\ x_pos_steps = RoundHalfAway(TheCall.fx, MICRONS_PER_MICROSTEP)
            /\ y_pos_steps = RoundHalfAway(TheCall.fy, MICRONS_PER_MICROSTEP)

\* C18 (amended): distances are converted to microsteps by rounding to the
\* nearest integer, a tie going to the even integer, for the commanded
\* microsteps and for the stored position.
C18_TiesToEven ==
    /\ TheCall.op = "move_to" =>
            \A i \in 1..Len(TheCall.cmds) :
                /\ NearestTiesToEven(TheCall.cmds[i].x, -TheCall.cmds[i].dx)
                /\ NearestTiesToEven(TheCall.cmds[i].y, TheCall.cmds[i].dy)
    /\ TargetStored =>
            /\ NearestTiesToEven(x_pos_steps, TheCall.fx)
            /\ NearestTiesToEven(y_pos_steps, TheCall.fy)

\* a target half a microstep from its neighbours was stored, and a command was
\* computed from a distance that is a tie
C18_Witness ==
    /\ TargetStored
    /\ 2 * Abs(PositionUm(x_pos_steps) - TheCall.fx) = MICRONS_PER_MICROSTEP
    /\ \E i \in 1..Len(TheCall.cmds) :
            2 * Abs(PositionUm(TheCall.cmds[i].y) - TheCall.cmds[i].dy) = MICRONS_PER_MICROSTEP

\* C19: a stop request raised while a move_to is running is honoured between
\* driver commands: once it is raised, that call issues no further command.
C19_CancelHonoured ==
    [][(cancel # 0 /\ cancel = ncalls /\ ncalls' = ncalls)
            => Len(call'[1].cmds) <= Len(call[1].cmds)]_vars

\* C20: when the handle cannot be acquired (the driver raises or hands back 0)
\* the construction fails, once and for all: it is not tried again, no call is
\* made on the controller and no command reaches the driver.
C20_FailsWithoutHandle ==
    /\ stage.attempts <= 1
    /\ stage.init \in {"load_error", "zero"} =>
            /\ stage.state = "failed"
            /\ handle = 0
            /\ ncalls = 0 /\ ~moving
            /\ \A t \in Threads : pc[t] = "idle" /\ call[t] = NoCall

\* the driver handed back a zero handle and the construction failed
C20_Witness == stage.state = "failed" /\ stage.init = "zero" /\ stage.attempts = 1

NearestStableStep(um, req) ==
    /\ um % (STABLE_STEP_MICROSTEPS * MICRONS_PER_MICROSTEP) = 0
    /\ 2 * Abs(um - req) <= STABLE_STEP_MICROSTEPS * MICRONS_PER_MICROSTEP

\* C22: with snapping the target that is bounds-checked, moved to and committed
\* is the multiple of 8 microsteps nearest to the request, and the move is
\* accepted or rejected on that value; without snapping it is the request itself.
C22_SnappedTargetDecides ==
    (TheCall.op = "move_to" /\ TheCall.outcome # "running") =>
        /\ IF TheCall.snap
           THEN NearestStableStep(TheCall.fx, TheCall.tx)
                /\ NearestStableStep(TheCall.fy, TheCall.ty)
           ELSE TheCall.fx = TheCall.tx /\ TheCall.fy = TheCall.ty
        /\ TheCall.outcome = "rejected" <=>
                ~(/\ 0 <= TheCall.fx /\ TheCall.fx <= X_LIMIT_UM
                  /\ 0 <= TheCall.fy /\ TheCall.fy <= Y_LIMIT_UM)
        /\ (TargetStored /\ TheCall.snap) =>
                /\ PositionUm(x_pos_steps) = TheCall.fx
                /\ PositionUm(y_pos_steps) = TheCall.fy
                /\ SumX(TheCall.cmds) = TheCall.start[1] - x_pos_steps
                /\ SumY(TheCall.cmds) = y_pos_steps - TheCall.start[2]

\* a request above the X limit whose snapped value is inside it was carried out
C22_Witness ==
    /\ TargetStored /\ TheCall.snap
    /\ TheCall.tx > X_LIMIT_UM
    /\ TheCall.fx <= X_LIMIT_UM

Sign(n) == IF n > 0 THEN 1 ELSE IF n < 0 THEN -1 ELSE 0

\* steps has the magnitude of |delta| rounded to microsteps, and the sign sgn when not 0
RoundedWithSign(steps, delta, sgn) ==
    /\ NearestTiesToEven(Abs(steps), Abs(delta))
    /\ steps # 0 => Sign(steps) = sgn

\* C23: on every leg the microsteps commanded on X have the sign opposite to
\* the user-frame delta, those on Y the same sign, each with the magnitude of
\* the rounded |delta|; a leg whose counts are both 0 sends no command.
C23_SignsAndMagnitudes ==
    TheCall.op = "move_to" =>
        /\ \A i \in DOMAIN TheCall.cmds :
            LET c == TheCall.cmds[i]
            IN  /\ RoundedWithSign(c.x, c.dx, -Sign(c.dx))
                /\ RoundedWithSign(c.y, c.dy, Sign(c.dy))
                /\ c.x # 0 \/ c.y # 0
        /\ (TheCall.outcome = "done" /\ LegCalls(1) = 0) =>
                AtOvershoot(TheCall.start[1], TheCall.start[2])

\* a leg moved both axes towards smaller user coordinates, and one leg of a
\* completed call sent no command
C23_Witness ==
    /\ TargetStored /\ LegCalls(1) = 0
    /\ \E i \in DOMAIN TheCall.cmds :
            /\ TheCall.cmds[i].dx > 0 /\ TheCall.cmds[i].x < 0
            /\ TheCall.cmds[i].dy < 0 /\ TheCall.cmds[i].y < 0

\* a movement worker (movement_wrapper) was started for thread t and has not finished
MovementWorker(t) == task[t].kind = "move"

\* C24: in the GUI at most one movement worker exists at a time: a movement
\* request made while a worker has been started and has not finished is dropped.
C24_OneMovementWorker ==
    \A t, u \in Threads : (MovementWorker(t) /\ MovementWorker(u)) => t = u

\* C25: after find_home and move_to calls none of which raised, with no call
\* in progress, each position counter equals the sum of the microsteps
\* commanded on its axis since the origin was set (negated on the inverted X).
C25_CountersMatchCommanded ==
    (sent.clean /\ homing = "HOMED" /\ pc[1] \in {"idle", "return"})
        => /\ x_pos_steps = -sent.x
           /\ y_pos_steps = sent.y

\* C26: every position the stage is commanded to, the overshoot position of the
\* first leg included, lies inside the travel bounds of its axis.
C26_CommandedInsideBounds ==
    (TheCall.op = "move_to" /\ pc[1] \in {"leg1_wait", "leg2_wait"})
        => /\ 0 <= LegTargetX(1) /\ LegTargetX(1) <= X_LIMIT_UM
           /\ 0 <= LegTargetY(1) /\ LegTargetY(1) <= Y_LIMIT_UM

\* C27: with no call in progress, after find_home and any sequence of move_to
\* and return_to_home calls (completed, rejected or ended by a driver fault),
\* get_position() lies inside [0, X_LIMIT_UM] x [0, Y_LIMIT_UM].
C27_PositionInsideLimits ==
    (homing = "HOMED" /\ pc[1] = "idle")
        => /\ 0 <= PositionUm(x_pos_steps) /\ PositionUm(x_pos_steps) <= X_LIMIT_UM
           /\ 0 <= PositionUm(y_pos_steps) /\ PositionUm(y_pos_steps) <= Y_LIMIT_UM

\* C28: after close() has released the handle, a find_home, move_to or
\* return_to_home on the same controller makes no move call on the driver:
\* none is accepted and none is refused by it.
C28_NoDriverCallAfterClose ==
    (handle = 0 /\ TheCall.op \in {"find_home", "move_to"})
        => TheCall.cmds = <<>> /\ TheCall.faults = 0

\* C29: the handle acquired at construction is released at most once: the first
\* close() calls release_handle, every later close() calls nothing and changes
\* nothing.
C29_ReleasedOnce ==
    [][/\ stage.releases' = (IF stage.closes' > 0 THEN 1 ELSE 0)
       /\ (stage.closes' > stage.closes /\ stage.closes > 0)
            => UNCHANGED <<ctl, handle, moving, homing, hw, sent, pc>>]_vars

\* close() has been called twice
C29_Witness == stage.closes = 2 /\ stage.releases = 1 /\ handle = 0

\* C30: with snapping on every call, and no call in progress after find_home
\* and move_to calls that each completed or was rejected, both position
\* counters are multiples of 8 microsteps.
C30_OnStableGrid ==
    (homing = "HOMED" /\ sent.clean /\ sent.snapped /\ pc[1] \in {"idle", "return"})
        => /\ x_pos_steps % STABLE_STEP_MICROSTEPS = 0
           /\ y_pos_steps % STABLE_STEP_MICROSTEPS = 0

\* away from the origin after snapped moves, the last one rejected
C30_Witness ==
    /\ homing = "HOMED" /\ sent.clean /\ sent.snapped /\ pc[1] = "idle"
    /\ TheCall.op = "move_to" /\ TheCall.outcome = "rejected"
    /\ x_pos_steps # 0 /\ y_pos_steps # 0

====
